---- MODULE Spec2Model ----
(***************************************************************************)
(* Locale-prefixed routing of the TanStack Start + Intlayer template.      *)
(*                                                                         *)
(* A URL is a sequence of tokens: "/" "?" ":" are the separators, every    *)
(* other token is a scheme ("http", "https"), a host, a path segment or a  *)
(* query.  "/en/about?q=1" is <<"/", "en", "/", "about", "?", "q=1">>.     *)
(***************************************************************************)
EXTENDS Integers, Sequences, FiniteSets, TLC

VARIABLES
    history,            \* the session history of the tab, a sequence of URLs
    index,              \* position of the current entry in history
    locale,             \* the ambient current locale, useLocale().locale
    lastOp,             \* the operation that produced the current state
    arg,                \* the `to` / selected value handed to that operation
    target,             \* the `to` the operation handed to the router / browser
    rootTrailingSlash   \* whether the i18n library renders a localized root as "/L/" (else "/L")

vars == <<history, index, locale, lastOp, arg, target, rootTrailingSlash>>

\* ---------------------------------------------------------------- bounds

MaxHist == 2

\* --------------------------------------------------------- configuration

locales == <<"en", "fr", "es">>

defaultLocale == "en"

prefixDefault == TRUE

Locales == {locales[i] : i \in DOMAIN locales}

\* the pages under $locale/: the localized home page and the about page
AppRoutes == {<<>>, <<"about">>}

Queries == {<<>>, <<"?", "q=1">>}

Root == <<"/">>

None == <<>>

\* ------------------------------------------------------------ URL parsing

RECURSIVE joinSegments(_)
joinSegments(segs) ==
    IF segs = <<>> THEN <<>>
    ELSE <<"/", Head(segs)>> \o joinSegments(Tail(segs))

queryStart(url) ==
    IF \E i \in DOMAIN url : url[i] = "?"
    THEN CHOOSE i \in DOMAIN url : url[i] = "?" /\ \A j \in 1..(i - 1) : url[j] # "?"
    ELSE Len(url) + 1

pathnameOf(url) == SubSeq(url, 1, queryStart(url) - 1)

searchStrOf(url) == SubSeq(url, queryStart(url), Len(url))

segmentsOf(pathname) == SelectSeq(pathname, LAMBDA t : t # "/")

\* ------------------------------------------------------- i18n library

\* getLocalizedUrl of the i18n library: drop an existing locale segment,
\* put the target locale first, keep the rest of the path and the query.
getLocalizedUrl(url, currentLocale) ==
    LET segs == segmentsOf(pathnameOf(url))
        rest == IF segs # <<>> /\ Head(segs) \in Locales THEN Tail(segs) ELSE segs
        pre  == IF prefixDefault \/ currentLocale # defaultLocale
                THEN <<"/", currentLocale>> ELSE <<>>
        path == IF rest = <<>>
                THEN (IF pre = <<>> \/ rootTrailingSlash THEN pre \o <<"/">> ELSE pre)
                ELSE pre \o joinSegments(rest)
    IN  path \o searchStrOf(url)

availableLocales == locales

\* ------------------------------------------------------- the components

\* isExternal with the pattern /^https?:\/\//, which misses protocol-relative URLs
isExternalSchemeOnly(to) ==
    /\ Len(to) >= 4
    /\ to[1] \in {"http", "https"}
    /\ to[2] = ":"
    /\ to[3] = "/"
    /\ to[4] = "/"

\* /^(https?:)?\/\//.test(to)
isExternal(to) ==
    \/ Len(to) >= 2 /\ to[1] = "/" /\ to[2] = "/"
    \/ /\ Len(to) >= 4
       /\ to[1] \in {"http", "https"}
       /\ to[2] = ":"
       /\ to[3] = "/"
       /\ to[4] = "/"

location == history[index]

pathname == pathnameOf(location)

searchStr == searchStrOf(location)

\* a page of the $locale/ routes is displayed
OnLocalePage ==
    /\ ~isExternal(location)
    /\ segmentsOf(pathname) # <<>>
    /\ Head(segmentsOf(pathname)) \in Locales

\* history.pushState: entries after the current one are dropped
pushEntry(url) ==
    /\ index < MaxHist
    /\ history' = SubSeq(history, 1, index) \o <<url>>
    /\ index' = index + 1

\* history.replaceState / location.replace: the current entry is overwritten
replaceEntry(url) ==
    /\ history' = [history EXCEPT ![index] = url]
    /\ index' = index

\* the paths a caller hands to LocalizedLink / localizedNavigate
InternalPaths ==
    {pre \o joinSegments(route) \o (IF pre = <<>> /\ route = <<>> THEN Root ELSE <<>>) \o q :
        pre \in {<<>>, <<"/", locales[2]>>}, route \in AppRoutes, q \in Queries}

ExternalUrls ==
    {<<"https", ":", "/", "/", "example.org">>,
     <<"http", ":", "/", "/", "example.org">>,
     <<"/", "/", "example.org">>}

Paths == InternalPaths \cup ExternalUrls

Init ==
    /\ history = <<Root>>
    /\ index = 1
    /\ locale \in Locales
    /\ lastOp = "load"
    /\ arg = None
    /\ target = None
    /\ rootTrailingSlash \in BOOLEAN

\* ----------------------------------------------------------- operations

\* the router resolves a `to` without a leading "/" against the current path
resolveTo(from, to) ==
    IF to # <<>> /\ Head(to) = "/" THEN to
    ELSE (IF from # <<>> /\ from[Len(from)] = "/" THEN from ELSE from \o <<"/">>) \o to

\* the redirect with the configured default locale instead of the resolved one
RouteComponentDefault ==
    /\ location = Root
    /\ LET to == <<defaultLocale>> IN
        /\ replaceEntry(resolveTo(pathname, to))
        /\ target' = to
    /\ lastOp' = "redirect"
    /\ arg' = None
    /\ UNCHANGED <<locale, rootTrailingSlash>>

\* the redirect without `replace`: <Navigate to={locale} />
RouteComponentPush ==
    /\ location = Root
    /\ LET to == <<locale>> IN
        /\ pushEntry(resolveTo(pathname, to))
        /\ target' = to
    /\ lastOp' = "redirect"
    /\ arg' = None
    /\ UNCHANGED <<locale, rootTrailingSlash>>

\* routes/index.tsx: <Navigate replace to={locale} />
RouteComponent ==
    /\ location = Root
    /\ LET to == <<locale>> IN
        /\ replaceEntry(resolveTo(pathname, to))
        /\ target' = to
    /\ lastOp' = "redirect"
    /\ arg' = None
    /\ UNCHANGED <<locale, rootTrailingSlash>>

\* the prefix written by hand: `/${locale}${to}`
localizedToConcat(to, currentLocale) ==
    IF isExternal(to) THEN to ELSE <<"/", currentLocale>> \o to

\* the `to` LocalizedLink and localizedNavigate compute
localizedTo(to, currentLocale) ==
    IF isExternal(to) THEN to ELSE getLocalizedUrl(to, currentLocale)

\* a click on <LocalizedLink to={p} replace={repl}>
LocalizedLink(p, repl) ==
    /\ OnLocalePage
    /\ LET to == localizedTo(p, locale) IN
        /\ IF repl THEN replaceEntry(to) ELSE pushEntry(to)
        /\ target' = to
    /\ lastOp' = "link"
    /\ arg' = p
    /\ UNCHANGED <<locale, rootTrailingSlash>>

\* localizedNavigate({ to: p, replace: repl })
localizedNavigate(p, repl) ==
    /\ OnLocalePage
    /\ LET to == localizedTo(p, locale) IN
        /\ IF repl THEN replaceEntry(to) ELSE pushEntry(to)
        /\ target' = to
    /\ lastOp' = "navigate"
    /\ arg' = p
    /\ UNCHANGED <<locale, rootTrailingSlash>>

\* the option list without the active locale: availableLocales.filter(l => l !== locale)
optionsWithoutCurrent == SelectSeq(availableLocales, LAMBDA l : l # locale)

\* the <option> list of the locale <select>
options == [i \in DOMAIN availableLocales |-> availableLocales[i]]

\* the option a <select value={v}> shows as selected
selectedOption(v) ==
    IF \E i \in DOMAIN options : options[i] = v THEN v ELSE options[1]

\* onLocaleChange that localizes the pathname alone and loses the query
onLocaleChangeNoSearch(newLocale) ==
    LET pathWithLocale == getLocalizedUrl(pathname, newLocale) IN
    /\ replaceEntry(pathWithLocale)
    /\ target' = pathWithLocale

\* onLocaleChange that puts the new locale in front of the current path
onLocaleChangeConcat(newLocale) ==
    LET pathWithLocale == <<"/", newLocale>> \o pathname \o searchStr IN
    /\ replaceEntry(pathWithLocale)
    /\ target' = pathWithLocale

\* onLocaleChange that localizes with the locale of the render, not the new one
onLocaleChangeStale(newLocale) ==
    LET pathWithLocale == getLocalizedUrl(pathname \o searchStr, locale) IN
    /\ replaceEntry(pathWithLocale)
    /\ target' = pathWithLocale

\* onLocaleChange: location.replace(getLocalizedUrl(pathname + searchStr, newLocale))
onLocaleChange(newLocale) ==
    LET pathWithLocale == getLocalizedUrl(pathname \o searchStr, newLocale) IN
    /\ replaceEntry(pathWithLocale)
    /\ target' = pathWithLocale

\* <select onChange={(e) => setLocale(e.target.value)}> picks another option
LocaleSwitcher(i) ==
    /\ OnLocalePage
    /\ options[i] # selectedOption(locale)
    /\ locale' = options[i]
    /\ onLocaleChange(options[i])
    /\ lastOp' = "switch"
    /\ arg' = <<options[i]>>
    /\ UNCHANGED rootTrailingSlash

\* the browser's back button
Back ==
    /\ location # Root
    /\ index > 1
    /\ index' = index - 1
    /\ lastOp' = "back"
    /\ arg' = None
    /\ target' = None
    /\ UNCHANGED <<history, locale, rootTrailingSlash>>

\* the user opens the unprefixed root again in the same tab
VisitRoot ==
    /\ location # Root
    /\ pushEntry(Root)
    /\ lastOp' = "visit"
    /\ arg' = None
    /\ target' = None
    /\ UNCHANGED <<locale, rootTrailingSlash>>

Next ==
    \/ RouteComponent
    \/ \E p \in Paths, repl \in BOOLEAN : LocalizedLink(p, repl)
    \/ \E p \in Paths, repl \in BOOLEAN : localizedNavigate(p, repl)
    \/ \E i \in DOMAIN options : LocaleSwitcher(i)
    \/ Back
    \/ VisitRoot

Spec == Init /\ [][Next]_vars

\* the root route renders nothing but the redirect, so it is always taken
FairSpec == Spec /\ WF_vars(RouteComponent)

\* redirect, localized navigation to internal paths and locale switches only
NavNext ==
    \/ RouteComponent
    \/ \E p \in InternalPaths, repl \in BOOLEAN : LocalizedLink(p, repl)
    \/ \E p \in InternalPaths, repl \in BOOLEAN : localizedNavigate(p, repl)
    \/ \E i \in DOMAIN options : LocaleSwitcher(i)

NavSpec == Init /\ [][NavNext]_vars

TypeOK ==
    /\ index \in 1..Len(history)
    /\ Len(history) <= MaxHist
    /\ locale \in Locales

\* ------------------------------------------------------------- properties

Navigated == lastOp \in {"link", "navigate"}

\* the first path segment is a supported locale and the second is not one
OneLocalePrefix(url) ==
    LET segs == segmentsOf(pathnameOf(url)) IN
    /\ ~isExternal(url)
    /\ segs # <<>>
    /\ Head(segs) \in Locales
    /\ Len(segs) >= 2 => segs[2] \notin Locales

\* C1: a visit of the unprefixed root with resolved locale L is followed by
\* the location /L, and the root never stays displayed.
C1_RootRedirect ==
    /\ [][location = Root => location' = <<"/", locale>>]_vars
    /\ [](location = Root => <>(location # Root))

C1_Witness ==
    /\ lastOp = "redirect"
    /\ locale = "fr"
    /\ location = <<"/", "fr">>

\* C2: the redirect replaces the root's history entry: no entry other than
\* one still to be redirected is the unprefixed root, and a back-navigation
\* never arrives at it.
C2_RootNotInHistory ==
    /\ \A i \in DOMAIN history : history[i] = Root => i = index
    /\ lastOp = "back" => location # Root

C2_Witness ==
    /\ lastOp = "back"
    /\ index = 1
    /\ location = <<"/", locale>>

\* C4: an external URL is handed on unchanged by LocalizedLink and
\* localizedNavigate, for every locale.
C4_ExternalUnchanged ==
    /\ \A U \in ExternalUrls, L \in Locales : localizedTo(U, L) = U
    /\ (Navigated /\ arg \in ExternalUrls) => (target = arg /\ location = arg)

C4_Witness ==
    /\ lastOp = "navigate"
    /\ arg = <<"/", "/", "example.org">>
    /\ target = arg

\* C5: localizing twice with the same locale gives what localizing once
\* gives, for internal and external paths alike.
C5_Idempotent ==
    /\ \A p \in Paths, L \in Locales :
          localizedTo(localizedTo(p, L), L) = localizedTo(p, L)
    /\ Navigated => localizedTo(target, locale) = target

C5_Witness ==
    /\ lastOp = "link"
    /\ locale = "fr"
    /\ arg = <<"/", "fr", "/", "about">>
    /\ target = arg

\* C6: a locale switch at /L1/<rest>?<query> leads to /L2/<rest>?<query>:
\* the first segment becomes the new locale, the other segments and the
\* query stay as they were.
C6_SwitchKeepsPath ==
    [][locale' # locale =>
        /\ Head(segmentsOf(pathname)) \in Locales
        /\ segmentsOf(pathname') = <<locale'>> \o Tail(segmentsOf(pathname))
        /\ searchStr' = searchStr]_vars

C6_Witness ==
    /\ lastOp = "switch"
    /\ locale = "fr"
    /\ location = <<"/", "fr", "/", "about", "?", "q=1">>

\* C7: the location a redirect, an internal localized navigation or a locale
\* switch leads to carries exactly one locale prefix, a supported one.
C7_OneLocalePrefix ==
    (lastOp \in {"redirect", "link", "navigate", "switch"} /\ arg \notin ExternalUrls)
        => OneLocalePrefix(location)

C7_Witness ==
    /\ lastOp = "switch"
    /\ location = <<"/", "es", "/", "about">>

\* C9: the locale selector has one option per supported locale and shows the
\* active locale as selected.
C9_SelectorOptions ==
    /\ Len(options) = Cardinality(Locales)
    /\ \A L \in Locales : Cardinality({i \in DOMAIN options : options[i] = L}) = 1
    /\ selectedOption(locale) = locale

C9_Witness ==
    /\ lastOp = "switch"
    /\ locale = "es"
    /\ selectedOption(locale) = "es"

\* C10: on a locale-prefixed location the prefix is the ambient locale, and
\* only a locale switch changes the ambient locale.
C10_UrlAgreesWithLocale ==
    /\ [](OnLocalePage => Head(segmentsOf(pathname)) = locale)
    /\ [][locale' # locale => lastOp' = "switch"]_vars

C10_Witness ==
    /\ lastOp = "navigate"
    /\ locale = "es"
    /\ arg = <<"/", "fr", "/", "about">>
    /\ location = <<"/", "es", "/", "about">>

====
